---- MODULE Spec2Model ----
(***************************************************************************)
(* The receipt-ingestion flow of the AI receipt analyzer: the ReceiptUpload *)
(* component (file intake), App.analyzeReceipt (upload, AI completion,      *)
(* response normalisation, state replacement, best-effort persistence),     *)
(* App.handleChatMessage (the chat bridge) and the part of ReceiptAnalysis  *)
(* that reads the stored record.                                            *)
(*                                                                          *)
(* Texts are sequences of tokens.  The characters the cleanup code looks at *)
(* are single-character tokens: the backtick "bt", the letters of the language   *)
(* tag "json", and the whitespace characters "\n" (whitespace for both      *)
(* JavaScript and JSON) and "nbsp" (U+00A0: whitespace for String.trim and  *)
(* the regular expression class \s, not for JSON.parse).  A JSON lexeme     *)
(* (punctuation, a number, a literal, a quoted string) is one token; a      *)
(* quoted string is written by its content, so the token "Milk" is the      *)
(* seven characters "Milk" with its quotes, and the token "" is the empty   *)
(* JSON string.                                                             *)
(***************************************************************************)
EXTENDS Integers, Sequences, FiniteSets, TLC

VARIABLES
    dragActive,     \* ReceiptUpload state: a drag is over the drop zone
    selectedFile,   \* ReceiptUpload state: the file shown as selected, or NoFile
    receiptData,    \* App state: the current record, or JsNull
    isAnalyzing,    \* App state: the "analyzing" flag
    crashed,        \* the React tree was unmounted by a render error
    inflight,       \* the analyzeReceipt invocations suspended at an await
    done,           \* the analyzeReceipt invocation that returned last
    chats,          \* the handleChatMessage invocations suspended at their await
    chatDone,       \* the handleChatMessage invocation that returned last
    normPc,         \* normaliser harness: "input" or "done"
    text,           \* normaliser harness: the raw text handed in
    source,         \* normaliser harness: how the raw text was put together
    cleanedText,    \* normaliser harness: the text after the cleanup
    parsedData,     \* normaliser harness: the parsed value
    accepted        \* normaliser harness: the validation passed

appVars == <<dragActive, selectedFile, receiptData, isAnalyzing, crashed,
             inflight, done, chats, chatDone>>
normVars == <<normPc, text, source, cleanedText, parsedData, accepted>>
vars == <<dragActive, selectedFile, receiptData, isAnalyzing, crashed,
          inflight, done, chats, chatDone,
          normPc, text, source, cleanedText, parsedData, accepted>>

(***************************************************************************)
(* Bounds.                                                                  *)
(***************************************************************************)
\* the longest run of whitespace put around a fence or a body
MaxPad == 1
\* handleChatMessage invocations that may be suspended at one time
MaxChats == 1
\* analyzeReceipt invocations that may be suspended at one time
MaxInflight == 2

(***************************************************************************)
(* JavaScript values.  Every value is a record of one shape, so that any    *)
(* two values can be compared.  An object's properties are "field" nodes in *)
(* insertion order.                                                         *)
(***************************************************************************)
JsUndefined == [kind |-> "undefined", lex |-> "undefined", elems |-> <<>>]
JsNull == [kind |-> "null", lex |-> "null", elems |-> <<>>]
JsTrue == [kind |-> "bool", lex |-> "true", elems |-> <<>>]
JsFalse == [kind |-> "bool", lex |-> "false", elems |-> <<>>]
Num(l) == [kind |-> "num", lex |-> l, elems |-> <<>>]
Str(l) == [kind |-> "str", lex |-> l, elems |-> <<>>]
Arr(es) == [kind |-> "arr", lex |-> "", elems |-> es]
Field(k, v) == [kind |-> "field", lex |-> k, elems |-> <<v>>]
Obj(fs) == [kind |-> "obj", lex |-> "", elems |-> fs]

\* the token universe of the model
StringLexemes ==
    {"", "x", "merchant", "date", "total", "subtotal", "tax", "items",
     "category", "name", "price", "quantity",
     "Corner Store", "Shop", "Mart", "01/02/2024", "Milk", "Bread", "Grocery"}
NumberLexemes == {"0", "1", "2", "3.5", "9", "12.5"}

\* the number of characters of each string of the universe (String.length)
CharCount ==
    [s \in StringLexemes |->
        CASE s = "" -> 0
          [] s = "x" -> 1
          [] s \in {"tax"} -> 3
          [] s \in {"date", "name", "Shop", "Mart", "Milk"} -> 4
          [] s \in {"total", "items", "price", "Bread"} -> 5
          [] s \in {"Grocery"} -> 7
          [] s \in {"merchant", "subtotal", "category", "quantity"} -> 8
          [] s = "01/02/2024" -> 10
          [] s = "Corner Store" -> 12]

\* JavaScript truthiness
Truthy(v) ==
    CASE v.kind \in {"undefined", "null"} -> FALSE
      [] v.kind = "bool" -> v.lex = "true"
      [] v.kind = "num" -> v.lex # "0"
      [] v.kind = "str" -> v.lex # ""
      [] OTHER -> TRUE

\* the positions of property k among an object's properties
FieldIndexes(v, k) ==
    {i \in 1..Len(v.elems) : v.elems[i].lex = k}

\* v.k  : a TypeError on null and undefined, undefined on a value without k
PropertyThrows(v) ==
    v.kind \in {"undefined", "null"}

Get(v, k) ==
    IF v.kind = "obj" /\ FieldIndexes(v, k) # {}
    THEN v.elems[CHOOSE i \in FieldIndexes(v, k) : TRUE].elems[1]
    ELSE JsUndefined

\* a || b
OrElse(a, b) ==
    IF Truthy(a) THEN a ELSE b

(***************************************************************************)
(* String operations of the cleanup: String.trim, String.startsWith and the *)
(* two regular-expression replacements.                                     *)
(***************************************************************************)
IsSpace(ch) ==
    ch \in {"\n", "nbsp"}

RECURSIVE TrimStart(_)
TrimStart(s) ==
    IF s # <<>> /\ IsSpace(Head(s)) THEN TrimStart(Tail(s)) ELSE s

RECURSIVE TrimEnd(_)
TrimEnd(s) ==
    IF s # <<>> /\ IsSpace(s[Len(s)])
    THEN TrimEnd(SubSeq(s, 1, Len(s) - 1))
    ELSE s

Trim(s) ==
    TrimEnd(TrimStart(s))

StartsWith(s, p) ==
    Len(s) >= Len(p) /\ SubSeq(s, 1, Len(p)) = p

EndsWith(s, p) ==
    Len(s) >= Len(p) /\ SubSeq(s, Len(s) - Len(p) + 1, Len(s)) = p

FenceJson == <<"bt", "bt", "bt", "j", "s", "o", "n">>
Fence == <<"bt", "bt", "bt">>

\* s.replace(/^<p>\s*/, '')
ReplaceOpening(s, p) ==
    IF StartsWith(s, p)
    THEN TrimStart(SubSeq(s, Len(p) + 1, Len(s)))
    ELSE s

\* s.replace(/\s*FENCE$/, '') with FENCE three backticks
ReplaceClosing(s) ==
    IF EndsWith(s, Fence)
    THEN TrimEnd(SubSeq(s, 1, Len(s) - Len(Fence)))
    ELSE s

\* a plausible slip: the language tag is never looked for
CleanText_GenericOnly(raw) ==
    LET t == Trim(raw)
    IN  IF StartsWith(t, Fence)
        THEN ReplaceClosing(ReplaceOpening(t, Fence))
        ELSE t

\* cleanedText after lines 195-202
CleanText(raw) ==
    LET t == Trim(raw)
    IN  IF StartsWith(t, FenceJson)
        THEN ReplaceClosing(ReplaceOpening(t, FenceJson))
        ELSE IF StartsWith(t, Fence)
             THEN ReplaceClosing(ReplaceOpening(t, Fence))
             ELSE t

(***************************************************************************)
(* JSON.parse, by recursive descent over the tokens.                        *)
(***************************************************************************)
RECURSIVE SkipWs(_)
SkipWs(s) ==
    IF s # <<>> /\ Head(s) = "\n" THEN SkipWs(Tail(s)) ELSE s

ParseFail == [ok |-> FALSE, val |-> JsUndefined, rest |-> <<>>]
ParseOk(v, r) == [ok |-> TRUE, val |-> v, rest |-> r]

\* a later duplicate of a key takes the place of the earlier one
SetField(fs, k, v) ==
    IF \E i \in 1..Len(fs) : fs[i].lex = k
    THEN [i \in 1..Len(fs) |-> IF fs[i].lex = k THEN Field(k, v) ELSE fs[i]]
    ELSE Append(fs, Field(k, v))

RECURSIVE ParseValue(_), ParseElements(_, _), ParseMembers(_, _)
ParseValue(s0) ==
    LET s == SkipWs(s0)
    IN  IF s = <<>> THEN ParseFail
        ELSE LET h == Head(s)
                 t == SkipWs(Tail(s))
             IN  CASE h \in StringLexemes -> ParseOk(Str(h), Tail(s))
                   [] h \in NumberLexemes -> ParseOk(Num(h), Tail(s))
                   [] h = "null" -> ParseOk(JsNull, Tail(s))
                   [] h = "true" -> ParseOk(JsTrue, Tail(s))
                   [] h = "false" -> ParseOk(JsFalse, Tail(s))
                   [] h = "[" ->
                        IF t # <<>> /\ Head(t) = "]"
                        THEN ParseOk(Arr(<<>>), Tail(t))
                        ELSE ParseElements(t, <<>>)
                   [] h = "{" ->
                        IF t # <<>> /\ Head(t) = "}"
                        THEN ParseOk(Obj(<<>>), Tail(t))
                        ELSE ParseMembers(t, <<>>)
                   [] OTHER -> ParseFail

ParseElements(s, acc) ==
    LET r == ParseValue(s)
        u == SkipWs(r.rest)
    IN  IF ~r.ok \/ u = <<>> THEN ParseFail
        ELSE IF Head(u) = "," THEN ParseElements(Tail(u), Append(acc, r.val))
        ELSE IF Head(u) = "]" THEN ParseOk(Arr(Append(acc, r.val)), Tail(u))
        ELSE ParseFail

ParseMembers(s, acc) ==
    LET k == SkipWs(s)
        c == IF k = <<>> THEN <<>> ELSE SkipWs(Tail(k))
        r == IF c = <<>> THEN ParseFail ELSE ParseValue(Tail(c))
        u == SkipWs(r.rest)
    IN  IF k = <<>> \/ c = <<>> THEN ParseFail
        ELSE IF Head(k) \notin StringLexemes \/ Head(c) # ":" THEN ParseFail
        ELSE IF ~r.ok \/ u = <<>> THEN ParseFail
        ELSE IF Head(u) = ","
             THEN ParseMembers(Tail(u), SetField(acc, Head(k), r.val))
        ELSE IF Head(u) = "}"
             THEN ParseOk(Obj(SetField(acc, Head(k), r.val)), Tail(u))
        ELSE ParseFail

\* JSON.parse(s): ok is FALSE where it throws a SyntaxError
JSONparse(s) ==
    LET r == ParseValue(s)
    IN  IF r.ok /\ SkipWs(r.rest) = <<>>
        THEN [ok |-> TRUE, val |-> r.val]
        ELSE [ok |-> FALSE, val |-> JsUndefined]

\* a plausible slip: the total is not looked at
HasRequiredFields_NoTotal(p) ==
    /\ ~PropertyThrows(p)
    /\ Truthy(Get(p, "merchant"))
    /\ Truthy(Get(p, "items"))

\* line 207 does not throw: merchant, total and items are all truthy
HasRequiredFields(p) ==
    /\ ~PropertyThrows(p)
    /\ Truthy(Get(p, "merchant"))
    /\ Truthy(Get(p, "total"))
    /\ Truthy(Get(p, "items"))

\* lines 195-209: the cleanup, the parse and the validation of one raw text
Normalize(raw) ==
    LET cleaned == CleanText(raw)
        r == JSONparse(cleaned)
    IN  [ok |-> r.ok /\ HasRequiredFields(r.val),
         cleaned |-> cleaned,
         parsed |-> r.ok,
         data |-> r.val]

(***************************************************************************)
(* String conversions: a template literal's ${v}, v.length, JSON.stringify. *)
(***************************************************************************)
RECURSIVE JoinWith(_, _)
JoinWith(parts, sep) ==
    IF parts = <<>> THEN <<>>
    ELSE IF Len(parts) = 1 THEN parts[1]
    ELSE parts[1] \o sep \o JoinWith(Tail(parts), sep)

\* String(v): the characters a template literal puts for v
RECURSIVE ToText(_)
ToText(v) ==
    CASE v.kind = "str" -> IF v.lex = "" THEN <<>> ELSE <<v.lex>>
      [] v.kind = "obj" -> <<"[object Object]">>
      [] v.kind = "arr" ->
            JoinWith([i \in 1..Len(v.elems) |->
                        IF PropertyThrows(v.elems[i]) THEN <<>>
                        ELSE ToText(v.elems[i])], <<",">>)
      [] OTHER -> <<v.lex>>

\* String(v.length)
LengthText(v) ==
    CASE v.kind = "arr" -> <<ToString(Len(v.elems))>>
      [] v.kind = "str" -> <<ToString(CharCount[v.lex])>>
      [] OTHER -> <<"undefined">>

\* JSON.stringify(v) of a value that JSON.parse produced
RECURSIVE JSONstringify(_)
JSONstringify(v) ==
    CASE v.kind = "arr" ->
            <<"[">> \o JoinWith([i \in 1..Len(v.elems) |->
                                    JSONstringify(v.elems[i])], <<",">>) \o <<"]">>
      [] v.kind = "obj" ->
            <<"{">> \o JoinWith([i \in 1..Len(v.elems) |->
                                    <<v.elems[i].lex, ":">>
                                    \o JSONstringify(v.elems[i].elems[1])],
                                <<",">>) \o <<"}">>
      [] OTHER -> <<v.lex>>

(***************************************************************************)
(* The normaliser on its own: every raw text put together from a body, an   *)
(* opening fence, a closing fence and whitespace is handed to lines 195-209.*)
(***************************************************************************)
WsChars == {"\n", "nbsp"}

Pad(ch, n) ==
    [i \in 1..n |-> ch]

MerchantChoices ==
    {<<>>, <<"merchant", ":", "">>, <<"merchant", ":", "Corner Store">>}
TotalChoices ==
    {<<>>, <<"total", ":", "0">>, <<"total", ":", "12.5">>}
ItemsChoices ==
    {<<>>,
     <<"items", ":", "[", "]">>,
     <<"items", ":", "[", "{", "name", ":", "Milk", ",", "price", ":", "3.5",
       "}", "]">>,
     <<"items", ":", "x">>}

\* the members that are present, separated by commas, in braces
ObjectText(members) ==
    <<"{">> \o JoinWith(SelectSeq(members, LAMBDA m : m # <<>>), <<",">>)
            \o <<"}">>

ObjectBodies ==
    {ObjectText(<<m, t, i>>) :
        m \in MerchantChoices, t \in TotalChoices, i \in ItemsChoices}

\* bodies that are no object: a literal, an array, a truncated object, the
\* empty text, prose, and an object with a no-break space inside
OtherBodies ==
    {<<"null">>, <<"[", "]">>, <<"{">>, <<>>, <<"Sorry">>,
     <<"{", "merchant", ":", "nbsp", "Shop", "}">>}

Bodies == ObjectBodies \cup OtherBodies

Sources ==
    [body : Bodies,
     open : {"none", "json", "generic"},
     close : {"none", "fence"},
     ws : WsChars,
     before : 0..MaxPad,
     inner1 : 0..MaxPad,
     inner2 : 0..MaxPad,
     after : 0..MaxPad]

OpeningOf(src) ==
    CASE src.open = "json" -> FenceJson
      [] src.open = "generic" -> Fence
      [] OTHER -> <<>>

ClosingOf(src) ==
    IF src.close = "fence" THEN Fence ELSE <<>>

\* the raw text of a source
Assemble(src) ==
    Pad(src.ws, src.before) \o OpeningOf(src) \o Pad(src.ws, src.inner1)
        \o src.body
        \o Pad(src.ws, src.inner2) \o ClosingOf(src) \o Pad(src.ws, src.after)

NoSource ==
    [body |-> <<>>, open |-> "none", close |-> "none", ws |-> "\n",
     before |-> 0, inner1 |-> 0, inner2 |-> 0, after |-> 0]

NormIdle ==
    /\ normPc = "off"
    /\ text = <<>>
    /\ source = NoSource
    /\ cleanedText = <<>>
    /\ parsedData = JsUndefined
    /\ accepted = FALSE

\* lines 195-209 applied to the raw text
NormalizeText ==
    /\ normPc = "input"
    /\ normPc' = "done"
    /\ cleanedText' = Normalize(text).cleaned
    /\ parsedData' = Normalize(text).data
    /\ accepted' = Normalize(text).ok
    /\ UNCHANGED <<text, source>>
    /\ UNCHANGED appVars

(***************************************************************************)
(* File intake: the ReceiptUpload component.                                *)
(***************************************************************************)
NoFile == [name |-> "", type |-> <<>>]

\* the files a user may drop or pick; a media type is a token sequence
Files ==
    {[name |-> "a.jpg", type |-> <<"image", "/", "jpeg">>],
     [name |-> "b.pdf", type |-> <<"application", "/", "pdf">>]}

\* e.dataTransfer.files / e.target.files: no file or one file
FileLists ==
    {<<>>} \cup {<<f>> : f \in Files}

\* file.type.startsWith('image/')
IsImage(f) ==
    StartsWith(f.type, <<"image", "/">>)

\* a plausible slip: the drop zone stays live during an analysis
DropZoneInteractive_Always ==
    ~crashed

\* the drop zone carries pointer-events-none while isAnalyzing (line 58)
DropZoneInteractive ==
    ~crashed /\ ~isAnalyzing

\* the file input is rendered while no file is selected (lines 64, 88-105)
\* and is disabled while isAnalyzing (line 104)
FileInputEnabled ==
    ~crashed /\ selectedFile = NoFile /\ ~isAnalyzing

\* the clear button is rendered beside a selected file while idle (line 71)
ClearButtonShown ==
    ~crashed /\ selectedFile # NoFile /\ ~isAnalyzing

(***************************************************************************)
(* Notifications, the persisted record, the chat prompt, the renderer.      *)
(***************************************************************************)
SuccessToast(p) ==
    [title |-> "Receipt analyzed successfully!",
     description |-> <<"Found ">> \o LengthText(Get(p, "items"))
                        \o <<" items from ">> \o ToText(Get(p, "merchant")),
     variant |-> "default"]

ParseFailureToast ==
    [title |-> "Analysis failed",
     description |-> <<"Could not parse the receipt data. Please try again.">>,
     variant |-> "destructive"]

AnalysisFailureToast ==
    [title |-> "Analysis failed",
     description |-> <<"Failed to analyze the receipt. Please try again.">>,
     variant |-> "destructive"]

UserId == "user-1"

NoDbRecord ==
    [userId |-> "", merchant |-> JsUndefined, date |-> JsUndefined,
     total |-> JsUndefined, subtotal |-> JsUndefined, tax |-> JsUndefined,
     items |-> <<>>, category |-> JsUndefined, imageUrl |-> <<>>]

\* the argument of blink.db.receipts.create (createdAt left out)
DbRecord(p, publicUrl) ==
    [userId |-> UserId,
     merchant |-> Get(p, "merchant"),
     date |-> Get(p, "date"),
     total |-> Get(p, "total"),
     subtotal |-> OrElse(Get(p, "subtotal"), Num("0")),
     tax |-> OrElse(Get(p, "tax"), Num("0")),
     items |-> JSONstringify(Get(p, "items")),
     category |-> OrElse(Get(p, "category"), Str("Other")),
     imageUrl |-> publicUrl]

\* receiptData.items.map(item => ...) throws a TypeError
PromptThrows(rd) ==
    LET items == Get(rd, "items")
    IN  \/ items.kind # "arr"
        \/ \E i \in 1..Len(items.elems) : PropertyThrows(items.elems[i])

\* React refuses an object as a child
RECURSIVE InvalidChild(_)
InvalidChild(v) ==
    \/ v.kind = "obj"
    \/ v.kind = "arr" /\ \E i \in 1..Len(v.elems) : InvalidChild(v.elems[i])

\* v.toFixed(2) throws unless v is a number
ToFixedThrows(v) ==
    v.kind # "num"

\* the populated branch of ReceiptAnalysis throws while rendering data
PopulatedRenderThrows(data) ==
    LET items == Get(data, "items")
    IN  \/ InvalidChild(Get(data, "merchant"))
        \/ InvalidChild(Get(data, "date"))
        \/ ToFixedThrows(Get(data, "total"))
        \/ Truthy(Get(data, "category")) /\ InvalidChild(Get(data, "category"))
        \/ items.kind # "arr"
        \/ \E i \in 1..Len(items.elems) :
              LET item == items.elems[i]
              IN  \/ PropertyThrows(item)
                  \/ InvalidChild(Get(item, "name"))
                  \/ Truthy(Get(item, "quantity"))
                        /\ InvalidChild(Get(item, "quantity"))
                  \/ ToFixedThrows(Get(item, "price"))
        \/ Truthy(Get(data, "subtotal")) /\ ToFixedThrows(Get(data, "subtotal"))
        \/ Truthy(Get(data, "tax")) /\ ToFixedThrows(Get(data, "tax"))

\* ReceiptAnalysis({data, isLoading}) throws: the skeleton and the empty
\* state read nothing of data
RenderThrows(data, isLoading) ==
    /\ ~isLoading
    /\ Truthy(data)
    /\ PopulatedRenderThrows(data)

(***************************************************************************)
(* The texts the AI completion may answer with in the application.          *)
(***************************************************************************)
ReceiptA ==
    <<"{", "merchant", ":", "Corner Store", ",", "date", ":", "01/02/2024", ",",
      "total", ":", "12.5", ",", "items", ":", "[",
      "{", "name", ":", "Milk", ",", "price", ":", "3.5", "}", ",",
      "{", "name", ":", "Bread", ",", "price", ":", "9", "}", "]", "}">>

\* a record in a json fence, as in end-to-end scenario A
TextFenced == FenceJson \o <<"\n">> \o ReceiptA \o <<"\n">> \o Fence

\* a bare record with other keys
TextPlain ==
    <<"{", "merchant", ":", "Mart", ",", "total", ":", "2", ",",
      "items", ":", "[", "]", ",", "category", ":", "Grocery", "}">>

\* merchant only, as in end-to-end scenario B
TextMissing == <<"{", "merchant", ":", "Shop", "}">>

\* items is a string, in a generic fence
TextNonArray ==
    Fence \o <<"{", "merchant", ":", "Shop", ",", "total", ":", "1", ",",
               "items", ":", "x", "}">> \o Fence

\* a total of zero
TextZeroTotal ==
    <<"{", "merchant", ":", "Mart", ",", "total", ":", "0", ",",
      "items", ":", "[", "]", "}">>

\* prose and a bare null
TextProse == <<"Sorry">>
TextNull == <<"null">>

CompletionTexts ==
    {TextFenced, TextPlain, TextMissing, TextNonArray, TextZeroTotal,
     TextProse, TextNull}

\* lines 195-209 on each of them
NormTable == [raw \in CompletionTexts |-> Normalize(raw)]

\* the URL the storage collaborator answers with
PublicUrl(path) ==
    <<"https://x/">> \o path

(***************************************************************************)
(* analyzeReceipt.  An invocation is suspended at one of its three awaits:  *)
(* pc is "upload", "generateText" or "create".  trace lists, in order, the  *)
(* collaborator calls it issued, how each settled, and its setReceiptData.  *)
(***************************************************************************)
NewCycle(file) ==
    [pc |-> "upload",
     file |-> file,
     path |-> <<"receipts/", file.name>>,
     publicUrl |-> <<>>,
     text |-> <<>>,
     cleanedText |-> <<>>,
     parsedData |-> JsUndefined,
     dbRecord |-> NoDbRecord,
     before |-> receiptData,
     replaced |-> FALSE,
     trace |-> <<"storage.upload">>]

NoCycle ==
    [pc |-> "none", exit |-> "none", dbOk |-> TRUE, replaced |-> FALSE,
     toasts |-> <<>>, trace |-> <<>>]

RemoveAt(seq, i) ==
    SubSeq(seq, 1, i - 1) \o SubSeq(seq, i + 1, Len(seq))

\* a plausible slip: the flag is cleared at the end of the try block
AnalyzingAfter_TryEnd(exit) ==
    exit \in {"uploadError", "completionError"}

\* finally { setIsAnalyzing(false) } (lines 253-255), whatever the exit
AnalyzingAfter(exit) ==
    FALSE

\* a plausible slip: the parsed value is stored before it is validated
ReceiptDataAfter_BeforeValidation(n, current) ==
    IF n.parsed THEN n.data ELSE current

\* setReceiptData(parsedData) is reached only past the validation (line 211)
ReceiptDataAfter(n, current) ==
    IF n.ok THEN n.data ELSE current

\* a plausible slip: the inner catch rethrows to the outer one
ToastsOnParseError_Rethrown ==
    <<ParseFailureToast, AnalysisFailureToast>>

\* the inner catch (lines 236-245)
ToastsOnParseError ==
    <<ParseFailureToast>>

\* the outer catch (lines 246-252)
ToastsOnReject ==
    <<AnalysisFailureToast>>

\* a plausible slip: create is awaited without its own try
ToastsAfterCreate_Propagates(p, ok) ==
    IF ok THEN <<SuccessToast(p)>> ELSE <<ParseFailureToast>>

\* lines 214-235: a failed create is swallowed, the success toast follows
ToastsAfterCreate(p, ok) ==
    <<SuccessToast(p)>>

\* the invocation at position i returns: the catch block's toasts, then
\* the finally block
Return(i, exit, dbOk, toasts, events) ==
    /\ inflight' = RemoveAt(inflight, i)
    /\ done' = [pc |-> "returned",
                exit |-> exit,
                dbOk |-> dbOk,
                replaced |-> inflight[i].replaced,
                toasts |-> toasts,
                trace |-> inflight[i].trace \o events]
    /\ isAnalyzing' = AnalyzingAfter(exit)
    /\ crashed' = (crashed \/ RenderThrows(receiptData', isAnalyzing'))

\* lines 149-155: the synchronous start of analyzeReceipt(file)
AnalyzeReceipt(file) ==
    /\ Len(inflight) < MaxInflight
    /\ isAnalyzing' = TRUE
    /\ inflight' = Append(inflight, NewCycle(file))
    /\ UNCHANGED <<receiptData, crashed, done>>

\* handleDrag (lines 15-23)
HandleDrag(type) ==
    /\ DropZoneInteractive
    /\ dragActive' = (type \in {"dragenter", "dragover"})
    /\ UNCHANGED <<selectedFile, receiptData, isAnalyzing, crashed, inflight,
                   done, chats, chatDone>>
    /\ UNCHANGED normVars

\* handleDrop (lines 25-37)
HandleDrop(files) ==
    /\ DropZoneInteractive
    /\ dragActive' = FALSE
    /\ IF files # <<>> /\ IsImage(files[1])
       THEN /\ selectedFile' = files[1]
            /\ AnalyzeReceipt(files[1])
       ELSE UNCHANGED <<selectedFile, receiptData, isAnalyzing, crashed,
                        inflight, done>>
    /\ UNCHANGED <<chats, chatDone>>
    /\ UNCHANGED normVars

\* handleFileSelect (lines 39-45)
HandleFileSelect(files) ==
    /\ FileInputEnabled
    /\ IF files # <<>>
       THEN /\ selectedFile' = files[1]
            /\ AnalyzeReceipt(files[1])
       ELSE UNCHANGED <<selectedFile, receiptData, isAnalyzing, crashed,
                        inflight, done>>
    /\ UNCHANGED <<dragActive, chats, chatDone>>
    /\ UNCHANGED normVars

\* clearFile (lines 47-49)
ClearFile ==
    /\ ClearButtonShown
    /\ selectedFile' = NoFile
    /\ UNCHANGED <<dragActive, receiptData, isAnalyzing, crashed, inflight,
                   done, chats, chatDone>>
    /\ UNCHANGED normVars

\* storage.upload resolves: lines 153-158, up to the await of generateText
UploadResolves(i) ==
    /\ inflight[i].pc = "upload"
    /\ inflight' = [inflight EXCEPT ![i] =
                      [@ EXCEPT !.pc = "generateText",
                                !.publicUrl = PublicUrl(inflight[i].path),
                                !.trace = @ \o <<"storage.upload resolved",
                                                 "ai.generateText">>]]
    /\ UNCHANGED <<dragActive, selectedFile, receiptData, isAnalyzing, crashed,
                   done, chats, chatDone>>
    /\ UNCHANGED normVars

\* a plausible slip: the upload is not awaited before the completion call
UploadRejects_Continues(i) ==
    /\ inflight[i].pc = "upload"
    /\ inflight' = [inflight EXCEPT ![i] =
                      [@ EXCEPT !.pc = "generateText",
                                !.trace = @ \o <<"storage.upload rejected",
                                                 "ai.generateText">>]]
    /\ UNCHANGED <<dragActive, selectedFile, receiptData, isAnalyzing, crashed,
                   done, chats, chatDone>>
    /\ UNCHANGED normVars

\* storage.upload rejects: the outer catch and the finally block
UploadRejects(i) ==
    /\ inflight[i].pc = "upload"
    /\ UNCHANGED receiptData
    /\ Return(i, "uploadError", TRUE, ToastsOnReject,
              <<"storage.upload rejected">>)
    /\ UNCHANGED <<dragActive, selectedFile, chats, chatDone>>
    /\ UNCHANGED normVars

\* ai.generateText resolves with raw: lines 195-226 up to the await of
\* create, or the inner catch and the finally block
CompletionResolves(i, raw) ==
    /\ inflight[i].pc = "generateText"
    /\ LET n == NormTable[raw]
       IN  /\ receiptData' = ReceiptDataAfter(n, receiptData)
           /\ IF n.ok
              THEN /\ inflight' = [inflight EXCEPT ![i] =
                        [@ EXCEPT !.pc = "create",
                                  !.text = raw,
                                  !.cleanedText = n.cleaned,
                                  !.parsedData = n.data,
                                  !.dbRecord =
                                      DbRecord(n.data, inflight[i].publicUrl),
                                  !.replaced = TRUE,
                                  !.trace = @ \o <<"ai.generateText resolved",
                                                   "setReceiptData",
                                                   "db.receipts.create">>]]
                   /\ crashed' =
                        (crashed \/ RenderThrows(receiptData', isAnalyzing))
                   /\ UNCHANGED <<isAnalyzing, done>>
              ELSE Return(i, "parseError", TRUE, ToastsOnParseError,
                          <<"ai.generateText resolved">>)
    /\ UNCHANGED <<dragActive, selectedFile, chats, chatDone>>
    /\ UNCHANGED normVars

\* ai.generateText rejects: the outer catch and the finally block
CompletionRejects(i) ==
    /\ inflight[i].pc = "generateText"
    /\ UNCHANGED receiptData
    /\ Return(i, "completionError", TRUE, ToastsOnReject,
              <<"ai.generateText rejected">>)
    /\ UNCHANGED <<dragActive, selectedFile, chats, chatDone>>
    /\ UNCHANGED normVars

\* db.receipts.create resolves: the success toast and the finally block
CreateResolves(i) ==
    /\ inflight[i].pc = "create"
    /\ UNCHANGED receiptData
    /\ Return(i, "success", TRUE,
              ToastsAfterCreate(inflight[i].parsedData, TRUE),
              <<"db.receipts.create resolved">>)
    /\ UNCHANGED <<dragActive, selectedFile, chats, chatDone>>
    /\ UNCHANGED normVars

\* db.receipts.create rejects: the catch of lines 227-230, the success
\* toast and the finally block
CreateRejects(i) ==
    /\ inflight[i].pc = "create"
    /\ UNCHANGED receiptData
    /\ Return(i, "success", FALSE,
              ToastsAfterCreate(inflight[i].parsedData, FALSE),
              <<"db.receipts.create rejected">>)
    /\ UNCHANGED <<dragActive, selectedFile, chats, chatDone>>
    /\ UNCHANGED normVars

(***************************************************************************)
(* handleChatMessage.                                                       *)
(***************************************************************************)
Instruction == "Please upload a receipt first to start chatting about it."
Apology ==
    "Sorry, I encountered an error processing your message. Please try again."

Messages == {"How much did I spend on dairy?", "What did I buy?"}
Replies == {"You spent $3.5 on dairy."}

NoChat ==
    [pc |-> "none", message |-> "", hadRecord |-> FALSE, calls |-> 0,
     settled |-> "none", reply |-> "", value |-> ""]

Returned(message, hadRecord, calls, settled, reply, value) ==
    [pc |-> "returned", message |-> message, hadRecord |-> hadRecord,
     calls |-> calls, settled |-> settled, reply |-> reply, value |-> value]

\* lines 258-277: up to the await of generateText, or to a return.  The
\* prompt goes to the collaborator; nothing of it is kept by the program.
HandleChatMessage(message) ==
    /\ ~crashed
    /\ IF ~Truthy(receiptData)
       THEN /\ chatDone' = Returned(message, FALSE, 0, "none", "", Instruction)
            /\ UNCHANGED chats
       ELSE IF PromptThrows(receiptData)
       THEN /\ chatDone' = Returned(message, TRUE, 0, "threw", "", Apology)
            /\ UNCHANGED chats
       ELSE /\ Len(chats) < MaxChats
            /\ chats' = Append(chats, [message |-> message])
            /\ UNCHANGED chatDone
    /\ UNCHANGED <<dragActive, selectedFile, receiptData, isAnalyzing, crashed,
                   inflight, done>>
    /\ UNCHANGED normVars

\* generateText resolves: return text (line 279)
ChatResolves(i, reply) ==
    /\ i \in 1..Len(chats)
    /\ chats' = RemoveAt(chats, i)
    /\ chatDone' = Returned(chats[i].message, TRUE, 1, "resolved", reply, reply)
    /\ UNCHANGED <<dragActive, selectedFile, receiptData, isAnalyzing, crashed,
                   inflight, done>>
    /\ UNCHANGED normVars

\* generateText rejects: the catch of lines 280-283
ChatRejects(i) ==
    /\ i \in 1..Len(chats)
    /\ chats' = RemoveAt(chats, i)
    /\ chatDone' = Returned(chats[i].message, TRUE, 1, "rejected", "", Apology)
    /\ UNCHANGED <<dragActive, selectedFile, receiptData, isAnalyzing, crashed,
                   inflight, done>>
    /\ UNCHANGED normVars

(***************************************************************************)
(* Specifications.                                                          *)
(***************************************************************************)
\* the signed-in application as mounted: lines 12-13 and 138-139
Init ==
    /\ dragActive = FALSE
    /\ selectedFile = NoFile
    /\ receiptData = JsNull
    /\ isAnalyzing = FALSE
    /\ crashed = FALSE
    /\ inflight = <<>>
    /\ done = NoCycle
    /\ chats = <<>>
    /\ chatDone = NoChat
    /\ NormIdle

\* a collaborator call of an extraction settles
Settle ==
    \E i \in 1..Len(inflight) :
        \/ UploadResolves(i)
        \/ UploadRejects(i)
        \/ \E raw \in CompletionTexts : CompletionResolves(i, raw)
        \/ CompletionRejects(i)
        \/ CreateResolves(i)
        \/ CreateRejects(i)

Next ==
    \/ \E type \in {"dragenter", "dragover", "dragleave"} : HandleDrag(type)
    \/ \E files \in FileLists : HandleDrop(files)
    \/ \E files \in FileLists : HandleFileSelect(files)
    \/ ClearFile
    \/ \E i \in 1..Len(inflight) : UploadResolves(i)
    \/ \E i \in 1..Len(inflight) : UploadRejects(i)
    \/ \E i \in 1..Len(inflight), raw \in CompletionTexts :
          CompletionResolves(i, raw)
    \/ \E i \in 1..Len(inflight) : CompletionRejects(i)
    \/ \E i \in 1..Len(inflight) : CreateResolves(i)
    \/ \E i \in 1..Len(inflight) : CreateRejects(i)
    \/ \E m \in Messages : HandleChatMessage(m)
    \/ \E i \in 1..Len(chats), r \in Replies : ChatResolves(i, r)
    \/ \E i \in 1..Len(chats) : ChatRejects(i)

Spec == Init /\ [][Next]_vars

\* every awaited call of an extraction eventually resolves or rejects
FairSpec == Spec /\ WF_vars(Settle)

NormInit ==
    /\ dragActive = FALSE
    /\ selectedFile = NoFile
    /\ receiptData = JsNull
    /\ isAnalyzing = FALSE
    /\ crashed = FALSE
    /\ inflight = <<>>
    /\ done = NoCycle
    /\ chats = <<>>
    /\ chatDone = NoChat
    /\ normPc = "input"
    /\ source \in Sources
    /\ text = Assemble(source)
    /\ cleanedText = <<>>
    /\ parsedData = JsUndefined
    /\ accepted = FALSE

NormNext == NormalizeText

SpecNorm == NormInit /\ [][NormNext]_vars

(***************************************************************************)
(* Properties.                                                              *)
(***************************************************************************)
\* a step in which an analyzeReceipt invocation starts / returns
CycleStarts == Len(inflight') > Len(inflight)
CycleReturns == Len(inflight') < Len(inflight)

\* the value JSON.parse gives for a raw text of the application
ParsedOf(raw) == JSONparse(CleanText(raw)).val

Position(trace, event) ==
    IF \E k \in 1..Len(trace) : trace[k] = event
    THEN CHOOSE k \in 1..Len(trace) : trace[k] = event
    ELSE 0

Before(trace, first, second) ==
    Position(trace, second) > 0 =>
        /\ Position(trace, first) > 0
        /\ Position(trace, first) < Position(trace, second)

Never(trace, cause, event) ==
    Position(trace, cause) > 0 => Position(trace, event) = 0

\* C1: every extraction cycle sets isAnalyzing on starting and clears it on
\* returning, whatever the exit path; with every awaited collaborator call
\* settling, an analysis under way always leads to isAnalyzing being false,
\* and no cycle is left behind with the flag still set.
C1_AnalyzingAlwaysCleared ==
    /\ [][CycleStarts => isAnalyzing']_vars
    /\ [][CycleReturns => ~isAnalyzing']_vars
    /\ [](inflight = <<>> => ~isAnalyzing)
    /\ (isAnalyzing ~> ~isAnalyzing)

C1_Witness ==
    /\ done.pc = "returned"
    /\ done.exit = "parseError"
    /\ inflight = <<>>
    /\ ~isAnalyzing

\* C2: while isAnalyzing is true no step changes selectedFile or starts an
\* extraction cycle, so at most one cycle is ever under way.
C2_NoIntakeWhileAnalyzing ==
    /\ [][isAnalyzing => (selectedFile' = selectedFile /\ ~CycleStarts)]_vars
    /\ [](Len(inflight) <= 1)

C2_Witness ==
    /\ isAnalyzing
    /\ Len(inflight) = 1
    /\ inflight[1].pc = "generateText"
    /\ selectedFile = inflight[1].file
    /\ ~ENABLED (\E files \in FileLists : HandleDrop(files))
    /\ ~ENABLED (\E files \in FileLists : HandleFileSelect(files))

\* C3: a cycle that returns by a failure (upload rejected, completion
\* rejected, text that does not parse, value without truthy merchant, total
\* or items) leaves receiptData as it was when the cycle started.
C3_FailureKeepsRecord ==
    [][(CycleReturns /\ done'.exit # "success") =>
          \E i \in 1..Len(inflight) :
              /\ inflight' = RemoveAt(inflight, i)
              /\ receiptData' = inflight[i].before
              /\ receiptData' = receiptData]_vars

C3_Witness ==
    /\ done.pc = "returned"
    /\ done.exit \in {"parseError", "uploadError", "completionError"}
    /\ receiptData = ParsedOf(TextFenced)

\* C4: only a file whose media type begins with image/ is ever recorded as
\* selectedFile or handed to analyzeReceipt, on the drop path and on the
\* file-picker path.
C4_OnlyImagesAccepted ==
    /\ selectedFile # NoFile => IsImage(selectedFile)
    /\ \A i \in 1..Len(inflight) : IsImage(inflight[i].file)

\* C5: when the validation passed and the database create call fails, the
\* cycle returns as a success: receiptData is the new record, the one
\* notification is the success notification, isAnalyzing is false.
C5_PersistenceFailureSwallowed ==
    [][(CycleReturns /\ ~done'.dbOk) =>
          /\ done'.exit = "success"
          /\ ~isAnalyzing'
          /\ \E i \in 1..Len(inflight) :
                /\ inflight[i].pc = "create"
                /\ inflight' = RemoveAt(inflight, i)
                /\ receiptData' = inflight[i].parsedData
                /\ done'.toasts = <<SuccessToast(inflight[i].parsedData)>>]_vars

C5_Witness ==
    /\ done.pc = "returned"
    /\ ~done.dbOk
    /\ receiptData = ParsedOf(TextPlain)
    /\ ~isAnalyzing

\* C6: a cycle that returns has emitted exactly one notification: the
\* success notification naming the item count and the merchant of the
\* stored record if and only if the cycle replaced receiptData, and a
\* destructive failure notification otherwise.
C6_ExactlyOneNotification ==
    [][CycleReturns =>
          /\ Len(done'.toasts) = 1
          /\ done'.replaced <=> done'.toasts[1] = SuccessToast(receiptData')
          /\ ~done'.replaced <=> done'.toasts[1].variant = "destructive"]_vars

C6_Witness ==
    /\ done.pc = "returned"
    /\ done.exit = "uploadError"
    /\ done.toasts = <<AnalysisFailureToast>>

\* C7: within a cycle the upload has resolved before the completion call is
\* issued, the completion has resolved before setReceiptData and the create
\* call; after a rejected upload no completion call is issued, after a
\* rejected completion neither setReceiptData nor create happens.
SequentialTrace(trace) ==
    /\ Before(trace, "storage.upload", "storage.upload resolved")
    /\ Before(trace, "storage.upload resolved", "ai.generateText")
    /\ Before(trace, "ai.generateText", "ai.generateText resolved")
    /\ Before(trace, "ai.generateText resolved", "setReceiptData")
    /\ Before(trace, "setReceiptData", "db.receipts.create")
    /\ Never(trace, "storage.upload rejected", "ai.generateText")
    /\ Never(trace, "ai.generateText rejected", "setReceiptData")
    /\ Never(trace, "ai.generateText rejected", "db.receipts.create")

C7_StepsSequential ==
    /\ SequentialTrace(done.trace)
    /\ done.replaced <=> Position(done.trace, "setReceiptData") > 0
    /\ \A i \in 1..Len(inflight) :
          /\ SequentialTrace(inflight[i].trace)
          /\ inflight[i].pc = "generateText" => inflight[i].publicUrl # <<>>
          /\ inflight[i].replaced <=> inflight[i].pc = "create"

C7_Witness ==
    /\ done.exit = "completionError"
    /\ Len(inflight) = 1
    /\ inflight[1].pc = "create"

\* C8: receiptData is absent or an object with truthy merchant, total and
\* items; it changes only when a completion text passes the validation, and
\* then becomes exactly the value parsed from that text.
FullyPopulated(rd) ==
    /\ rd.kind = "obj"
    /\ Truthy(Get(rd, "merchant"))
    /\ Truthy(Get(rd, "total"))
    /\ Truthy(Get(rd, "items"))

C8_RecordAbsentOrPopulated ==
    /\ [](receiptData = JsNull \/ FullyPopulated(receiptData))
    /\ [][receiptData' # receiptData =>
            \E i \in 1..Len(inflight) :
                /\ inflight[i].pc = "generateText"
                /\ Len(inflight') = Len(inflight)
                /\ inflight'[i].pc = "create"
                /\ inflight'[i].text \in CompletionTexts
                /\ receiptData' = JSONparse(inflight'[i].cleanedText).val
                /\ receiptData' = inflight'[i].parsedData]_vars

C8_Witness ==
    /\ Len(inflight) = 1
    /\ inflight[1].before = ParsedOf(TextFenced)
    /\ receiptData = ParsedOf(TextPlain)

\* C9: handleChatMessage without a record returns the instruction and makes
\* no collaborator call; with a record it makes exactly one call and
\* returns the collaborator's text, or the apology when the call failed;
\* no step of it changes receiptData or isAnalyzing.
ChatStep == chats' # chats \/ chatDone' # chatDone

ChatReturnOk ==
    chatDone.pc = "returned" =>
        IF ~chatDone.hadRecord
        THEN chatDone.value = Instruction /\ chatDone.calls = 0
        ELSE /\ chatDone.calls = 1
             /\ chatDone.settled \in {"resolved", "rejected"}
             /\ chatDone.settled = "resolved" => chatDone.value = chatDone.reply
             /\ chatDone.settled = "rejected" => chatDone.value = Apology

C9_ChatOneCallPerMessage ==
    /\ []ChatReturnOk
    /\ [][ChatStep => (receiptData' = receiptData
                        /\ isAnalyzing' = isAnalyzing)]_vars

\* C10: a JSON text wrapped in a json fence or a generic fence, with
\* whitespace around it, is cleaned to a text that parses to the value the
\* JSON text itself parses to, and is accepted exactly when the JSON text
\* alone is.
FencedJson(src) ==
    /\ src.open \in {"json", "generic"}
    /\ src.close = "fence"
    /\ JSONparse(src.body).ok

C10_FenceStrippingTransparent ==
    (normPc = "done" /\ FencedJson(source)) =>
        /\ JSONparse(cleanedText).ok
        /\ parsedData = JSONparse(source.body).val
        /\ accepted = Normalize(source.body).ok

C10_Witness ==
    /\ normPc = "done"
    /\ FencedJson(source)
    /\ source.open = "json"
    /\ source.ws = "nbsp"
    /\ source.inner1 > 0
    /\ source.inner2 > 0
    /\ accepted

====
